---- MODULE Spec2Model ----
(***************************************************************************)
(* Campus card-management backend (src/app.py, src/models.py): the four    *)
(* tables of the store, the module-level classifier handle, and one action *)
(* per HTTP handler.  Spec runs the handlers one request at a time;        *)
(* SpecConc runs recharge_card, log_transaction and update_status as the   *)
(* two database round trips each of them makes (load, then commit), so     *)
(* that requests of different workers interleave.                          *)
(***************************************************************************)
EXTENDS Integers, Sequences, FiniteSets, TLC

VARIABLES students, transactions, logs, anomalies, model, req, resp,
          pc, wreq, session, wresp, history

vars == <<students, transactions, logs, anomalies, model, req, resp,
          pc, wreq, session, wresp, history>>

store == <<students, transactions, logs, anomalies>>
workerVars == <<pc, wreq, session, wresp, history>>

(***************************************************************************)
(* Bounds of the model.                                                    *)
(***************************************************************************)
MaxBal == 1
MaxTx == 2
MaxLogs == 2

(***************************************************************************)
(* JSON values of a request body, by what Python's int() and float() make  *)
(* of them: null (the key is missing or None), a number, a numeric string  *)
(* such as "2", and a non-numeric string such as "abc".                    *)
(***************************************************************************)
Null == [t |-> "null", v |-> 0]
Str == [t |-> "str", v |-> 0]
Int_(n) == [t |-> "int", v |-> n]
NumStr(n) == [t |-> "numstr", v |-> n]

\* int(amount): a number or a numeric string converts, anything else raises.
py_int(x) ==
    IF x.t \in {"int", "numstr"} THEN [ok |-> TRUE, v |-> x.v]
    ELSE [ok |-> FALSE, v |-> 0]

NaN == [nan |-> TRUE, v |-> 0]

\* to_float(x, default=nan): float(x), and the default when float raises.
to_float(x) ==
    IF x.t \in {"int", "numstr"} THEN [nan |-> FALSE, v |-> x.v] ELSE NaN

model_features ==
    <<"cpu_usage", "memory_usage", "wifi_signal", "reader_response", "error_rate">>

FeatureIdx == 1..Len(model_features)

\* The telemetry dict of system_logs: every feature through to_float.
Telemetry(payload) == [i \in FeatureIdx |-> to_float(payload[i])]

AllValid(telemetry) == \A i \in FeatureIdx : ~telemetry[i].nan

(***************************************************************************)
(* models.py: the columns of SystemLog, and the keyword arguments the      *)
(* handler passes to its constructor.  The declarative constructor raises  *)
(* TypeError for a keyword that is no attribute of the class.              *)
(***************************************************************************)
SystemLogColumns ==
    {"log_id", "timestamp", "memory_usage", "wifi_signal", "reader_response",
     "error_rate", "anomaly"}

SystemLogKwargs ==
    {"cpu_usage", "memory_usage", "wifi_signal", "reader_response",
     "error_rate", "anomaly", "timestamp"}

SystemLogConstructs == SystemLogKwargs \subseteq SystemLogColumns

StatusValues == {"active", "blocked", "unregistered"}

\* Student(uid, name, phone) with setattr(status, "active") and the column
\* default of balance.
NewStudent(name, phone) ==
    [name |-> name, phone |-> phone, status |-> "active", balance |-> 0]

Exists(uid) == uid \in DOMAIN students

Response(code, msg) == [code |-> code, msg |-> msg]

\* The workers that serve requests at the same time.
Workers == {"w1", "w2"}

\* The Student object a worker's session holds after Student.query.get.
NoSession == [uid |-> "", status |-> "", balance |-> 0]

NoRequest ==
    [op |-> "none", body |-> FALSE, uid |-> "", name |-> "", phone |-> "",
     status |-> "", amount |-> Null, payload |-> <<>>, pred |-> ""]

Handled(r, rsp) == req' = r /\ resp' = rsp

InRange(b) == -MaxBal <= b /\ b <= MaxBal

(***************************************************************************)
(* Student management.                                                     *)
(***************************************************************************)
\* The checks of register_student before the insert, on whether
\* Student.query.get(uid) found a row.
Pass == Response(0, "")

RegisterChecksNoDuplicate(r, known) ==
    IF ~r.body THEN Response(400, "Invalid or missing JSON")
    ELSE IF r.uid = "" \/ r.name = "" THEN Response(400, "UID and name are required")
    ELSE Pass

RegisterChecks(r, known) ==
    IF ~r.body THEN Response(400, "Invalid or missing JSON")
    ELSE IF r.uid = "" \/ r.name = "" THEN Response(400, "UID and name are required")
    ELSE IF known THEN Response(400, "Student already exists")
    ELSE Pass

register_student(r) ==
    /\ r.op = "register_student"
    /\ LET pre == RegisterChecks(r, Exists(r.uid))
       IN IF pre # Pass
          THEN Handled(r, pre) /\ UNCHANGED store
          ELSE /\ students' = [u \in DOMAIN students \cup {r.uid} |->
                                 IF u = r.uid THEN NewStudent(r.name, r.phone)
                                 ELSE students[u]]
               /\ Handled(r, Response(200, "Student registered"))
               /\ UNCHANGED <<transactions, logs, anomalies>>
    /\ UNCHANGED <<model, workerVars>>

SetStatusTerminal(uid, new_status) ==
    students' = [students EXCEPT ![uid].status =
                   IF @ = "unregistered" THEN @ ELSE new_status]

\* setattr(student, "status", new_status); db.session.commit()
SetStatus(uid, new_status) ==
    students' = [students EXCEPT ![uid].status = new_status]

\* The checks of update_status before the write, on whether the student row
\* was found: the response that ends the request, or Pass.

StatusChecks(r, known) ==
    IF ~r.body THEN Response(400, "Invalid or missing JSON")
    ELSE IF r.uid = "" \/ r.status \notin {"active", "blocked", "unregistered"}
    THEN Response(400, "UID and valid status are required")
    ELSE IF ~known THEN Response(404, "Student not found")
    ELSE Pass

update_status(r) ==
    /\ r.op = "update_status"
    /\ LET pre == StatusChecks(r, Exists(r.uid))
       IN IF pre # Pass
          THEN Handled(r, pre) /\ UNCHANGED store
          ELSE /\ SetStatus(r.uid, r.status)
               /\ Handled(r, Response(200, "status updated"))
               /\ UNCHANGED <<transactions, logs, anomalies>>
    /\ UNCHANGED <<model, workerVars>>

WrapperChecks(r, known) ==
    IF ~r.body THEN Response(400, "Invalid or missing JSON")
    ELSE IF r.uid = "" THEN Response(400, "UID is required")
    ELSE IF ~known THEN Response(404, "Student not found")
    ELSE Pass

update_status_wrapper(new_status, r) ==
    /\ LET pre == WrapperChecks(r, Exists(r.uid))
       IN IF pre # Pass
          THEN Handled(r, pre) /\ UNCHANGED store
          ELSE /\ SetStatus(r.uid, new_status)
               /\ Handled(r, Response(200, "status updated"))
               /\ UNCHANGED <<transactions, logs, anomalies>>
    /\ UNCHANGED <<model, workerVars>>

block_card(r) == r.op = "block_card" /\ update_status_wrapper("blocked", r)

unblock_card(r) == r.op = "unblock_card" /\ update_status_wrapper("active", r)

unregister_card(r) ==
    r.op = "unregister_card" /\ update_status_wrapper("unregistered", r)

\* The checks recharge_card and log_transaction make before they touch the
\* balance, on the student row as loaded: the response that ends the
\* request, or Pass when the request goes on to the balance update.

BalanceChecksBlockedOnly(r, known, status, denied) ==
    IF ~r.body THEN Response(400, "Invalid or missing JSON")
    ELSE IF r.uid = "" \/ r.amount = Null
    THEN Response(400, "UID and amount are required")
    ELSE IF ~known THEN Response(404, "Student not found")
    ELSE IF status = "blocked" THEN Response(403, denied)
    ELSE Pass

BalanceChecks(r, known, status, denied) ==
    IF ~r.body THEN Response(400, "Invalid or missing JSON")
    ELSE IF r.uid = "" \/ r.amount = Null
    THEN Response(400, "UID and amount are required")
    ELSE IF ~known THEN Response(404, "Student not found")
    ELSE IF status # "active" THEN Response(403, denied)
    ELSE Pass

RechargeDenied == "Recharge not allowed. Student is not active."

TransactionDenied == "Transaction denied. Card inactive."

\* student.balance = int(student.balance or 0) + int(amount)
RechargedBalance(balance, n) == balance + n

DeductedBalanceAdds(balance, n) == balance + n

\* student.balance = int(student.balance or 0) - int(amount)
DeductedBalance(balance, n) == balance - n

\* TransactionLog(uid=uid, amount=int(amount), timestamp=ts)
TxRow(uid, n) == [uid |-> uid, amount |-> n]

recharge_card(r) ==
    /\ r.op = "recharge_card"
    /\ LET known == Exists(r.uid)
           pre == BalanceChecks(r, known,
                                IF known THEN students[r.uid].status ELSE "",
                                RechargeDenied)
       IN IF pre # Pass
          THEN Handled(r, pre) /\ UNCHANGED store
          ELSE \E dbFails \in BOOLEAN :
                 LET n == py_int(r.amount)
                     b == RechargedBalance(students[r.uid].balance, n.v)
                 IN IF ~n.ok \/ dbFails
                    THEN Handled(r, Response(500, "Recharge failed"))
                         /\ UNCHANGED store
                    ELSE /\ InRange(b)
                         /\ students' = [students EXCEPT ![r.uid].balance = b]
                         /\ Handled(r, Response(200, "Balance updated successfully"))
                         /\ UNCHANGED <<transactions, logs, anomalies>>
    /\ UNCHANGED <<model, workerVars>>

log_transaction(r) ==
    /\ r.op = "log_transaction"
    /\ LET known == Exists(r.uid)
           pre == BalanceChecks(r, known,
                                IF known THEN students[r.uid].status ELSE "",
                                TransactionDenied)
       IN IF pre # Pass
          THEN Handled(r, pre) /\ UNCHANGED store
          ELSE \E dbFails \in BOOLEAN :
                 LET n == py_int(r.amount)
                     b == DeductedBalance(students[r.uid].balance, n.v)
                 IN IF ~n.ok \/ dbFails
                    THEN Handled(r, Response(500, "Transaction failed"))
                         /\ UNCHANGED store
                    ELSE /\ InRange(b)
                         /\ Len(transactions) < MaxTx
                         /\ students' = [students EXCEPT ![r.uid].balance = b]
                         /\ transactions' = Append(transactions, TxRow(r.uid, n.v))
                         /\ Handled(r, Response(201, "Transaction logged successfully"))
                         /\ UNCHANGED <<logs, anomalies>>
    /\ UNCHANGED <<model, workerVars>>

(***************************************************************************)
(* System management.                                                      *)
(***************************************************************************)
reset_anomalies_only(r) ==
    /\ r.op = "reset_system"
    /\ anomalies' = <<>>
    /\ Handled(r, Response(200, "System reset"))
    /\ UNCHANGED <<students, transactions, logs, model, workerVars>>

reset_system(r) ==
    /\ r.op = "reset_system"
    /\ \E dbFails \in BOOLEAN :
         IF dbFails
         THEN Handled(r, Response(500, "reset failed")) /\ UNCHANGED store
         ELSE /\ transactions' = <<>>
              /\ anomalies' = <<>>
              /\ Handled(r, Response(200, "System reset"))
              /\ UNCHANGED <<students, logs>>
    /\ UNCHANGED <<model, workerVars>>

\* Rows in insertion order are rows in timestamp order; the first `limit`
\* of the reversed table.
RECURSIVE Reverse(_)
Reverse(s) == IF s = <<>> THEN <<>> ELSE Append(Reverse(Tail(s)), Head(s))

Recent(table) ==
    LET rev == Reverse(table)
    IN IF Len(rev) <= 10 THEN rev ELSE SubSeq(rev, 1, 10)

recent_transactions == Recent(transactions)

recent_anomalies == Recent(anomalies)

NewLog(telemetry, flag) == [telemetry |-> telemetry, anomaly |-> flag]

NewAnomaly(telemetry) ==
    [type |-> "System", source |-> "Sensor", details |-> telemetry,
     severity |-> "High"]

system_logs(r) ==
    /\ r.op = "system_logs"
    /\ IF ~r.body
       THEN Handled(r, Response(400, "Invalid or missing JSON")) /\ UNCHANGED store
       ELSE IF ~SystemLogConstructs
       THEN Handled(r, Response(500, "TypeError")) /\ UNCHANGED store
       ELSE LET telemetry == Telemetry(r.payload)
            IN /\ Len(logs) < MaxLogs
               /\ IF model = "loaded" /\ AllValid(telemetry) /\ r.pred = "outlier"
                  THEN /\ logs' = Append(logs, NewLog(telemetry, 1))
                       /\ anomalies' = Append(anomalies, NewAnomaly(telemetry))
                       /\ Handled(r, Response(201, "Log saved, anomaly detected"))
                  ELSE /\ logs' = Append(logs, NewLog(telemetry, 0))
                       /\ anomalies' = anomalies
                       /\ Handled(r, Response(201, "System log saved"))
               /\ UNCHANGED <<students, transactions>>
    /\ UNCHANGED <<model, workerVars>>

predict_validates_first(r) ==
    /\ r.op = "predict"
    /\ Handled(r,
         IF ~r.body THEN Response(400, "Invalid or missing JSON")
         ELSE IF ~AllValid(Telemetry(r.payload))
         THEN Response(400, "All features required and must be numeric")
         ELSE IF model = "none" THEN Response(503, "No model loaded")
         ELSE IF r.pred = "raise" THEN Response(500, "Internal Server Error")
         ELSE IF r.pred = "outlier" THEN Response(200, "Anomaly")
         ELSE Response(200, "Normal"))
    /\ UNCHANGED <<store, model, workerVars>>

predict(r) ==
    /\ r.op = "predict"
    /\ Handled(r,
         IF model = "none" THEN Response(503, "No model loaded")
         ELSE IF ~r.body THEN Response(400, "Invalid or missing JSON")
         ELSE IF ~AllValid(Telemetry(r.payload))
         THEN Response(400, "All features required and must be numeric")
         ELSE IF r.pred = "raise" THEN Response(500, "Internal Server Error")
         ELSE IF r.pred = "outlier" THEN Response(200, "Anomaly")
         ELSE Response(200, "Normal"))
    /\ UNCHANGED <<store, model, workerVars>>

(***************************************************************************)
(* The requests the clients send.  A request set holds, for a handler, the *)
(* request with no JSON body and one request per combination of the given  *)
(* field values; "" is a field that is missing or empty.                   *)
(***************************************************************************)
UIDs == {"S1", "S2"}

UidInputs == UIDs \cup {""}

NameInputs == {"", "Ann", "Bob"}

PhoneInputs == {"", "555"}

StatusInputs == StatusValues \cup {"suspended"}

AmountInputs == {Null, Str, Int_(1), NumStr(1)}

\* Five readings, all numeric, or with one of them missing or non-numeric.
GoodPayload == [i \in FeatureIdx |-> Int_(50)]

Payloads ==
    {GoodPayload}
    \cup {[GoodPayload EXCEPT ![i] = x] : i \in FeatureIdx, x \in {Null, Str}}

\* What the classifier does with a feature vector: label 1, label -1, or an
\* exception out of model.predict.
Predictions == {"inlier", "outlier", "raise"}

NoBody(op) == [NoRequest EXCEPT !.op = op]

RegisterRequests(U, N, P) ==
    {NoBody("register_student")} \cup
    {[NoRequest EXCEPT !.op = "register_student", !.body = TRUE, !.uid = u,
                       !.name = n, !.phone = p] : u \in U, n \in N, p \in P}

StatusRequests(U, S) ==
    {NoBody("update_status")} \cup
    {[NoRequest EXCEPT !.op = "update_status", !.body = TRUE, !.uid = u,
                       !.status = s] : u \in U, s \in S}

WrapperRequests(op, U) ==
    {NoBody(op)} \cup
    {[NoRequest EXCEPT !.op = op, !.body = TRUE, !.uid = u] : u \in U}

AmountRequests(op, U, A) ==
    {NoBody(op)} \cup
    {[NoRequest EXCEPT !.op = op, !.body = TRUE, !.uid = u, !.amount = a] :
        u \in U, a \in A}

FeatureRequests(op, F, C) ==
    {NoBody(op)} \cup
    {[NoRequest EXCEPT !.op = op, !.body = TRUE, !.payload = f, !.pred = c] :
        f \in F, c \in C}

ResetRequests == {NoBody("reset_system")}

\* One request of every handler: the part of a specification's requests
\* that is not its subject.
OneStudent ==
    RegisterRequests({"S1"}, {"Ann"}, {""})
    \cup StatusRequests({"S1"}, {"blocked"})
    \cup WrapperRequests("block_card", {"S1"})
    \cup WrapperRequests("unblock_card", {"S1"})
    \cup WrapperRequests("unregister_card", {"S1"})

OneAmount ==
    AmountRequests("recharge_card", {"S1"}, {Int_(1)})
    \cup AmountRequests("log_transaction", {"S1"}, {Int_(1)})

OneReading ==
    FeatureRequests("system_logs", {GoodPayload}, {"outlier"})
    \cup FeatureRequests("predict", {GoodPayload}, {"outlier"})

\* Spec: the ledger.  Two students, active or not, and every amount.
LedgerRequests ==
    RegisterRequests(UIDs, {"Ann"}, {""})
    \cup StatusRequests(UIDs, {"unregistered"})
    \cup WrapperRequests("block_card", {"S1"})
    \cup WrapperRequests("unblock_card", {"S1"})
    \cup WrapperRequests("unregister_card", {"S1"})
    \cup AmountRequests("recharge_card", UidInputs, AmountInputs)
    \cup AmountRequests("log_transaction", UidInputs, AmountInputs)
    \cup ResetRequests \cup OneReading

\* SpecRegistry: registration and the status machine, every field value.
RegistryRequests ==
    RegisterRequests({"", "S1"}, NameInputs, PhoneInputs)
    \cup RegisterRequests({"S2"}, {"Ann"}, {""})
    \cup StatusRequests(UidInputs, StatusInputs)
    \cup WrapperRequests("block_card", UidInputs)
    \cup WrapperRequests("unblock_card", UidInputs)
    \cup WrapperRequests("unregister_card", UidInputs)
    \cup OneAmount \cup ResetRequests \cup OneReading

\* SpecTelemetry: ingestion and prediction, every payload and classifier
\* outcome.
TelemetryRequests ==
    OneStudent \cup OneAmount \cup ResetRequests
    \cup FeatureRequests("system_logs", Payloads, Predictions)
    \cup FeatureRequests("predict", Payloads, Predictions)

Init ==
    /\ students = <<>>
    /\ transactions = <<>>
    /\ logs = <<>>
    /\ anomalies = <<>>
    /\ model \in {"none", "loaded"}
    /\ req = NoRequest
    /\ resp = Response(0, "")
    /\ pc = [w \in Workers |-> "idle"]
    /\ wreq = [w \in Workers |-> NoRequest]
    /\ session = [w \in Workers |-> NoSession]
    /\ wresp = [w \in Workers |-> Response(0, "")]
    /\ history = [net |-> 0, late |-> FALSE]

Handle(r) ==
    \/ register_student(r)
    \/ update_status(r)
    \/ block_card(r)
    \/ unblock_card(r)
    \/ unregister_card(r)
    \/ recharge_card(r)
    \/ log_transaction(r)
    \/ reset_system(r)
    \/ system_logs(r)
    \/ predict(r)

Next == \E r \in LedgerRequests : Handle(r)

Spec == Init /\ [][Next]_vars

NextRegistry == \E r \in RegistryRequests : Handle(r)

SpecRegistry == Init /\ [][NextRegistry]_vars

NextTelemetry == \E r \in TelemetryRequests : Handle(r)

SpecTelemetry == Init /\ [][NextTelemetry]_vars

(***************************************************************************)
(* Concurrent workers.  recharge_card, log_transaction, update_status and  *)
(* its wrappers each make two round trips to the store: Student.query.get  *)
(* loads the row into the worker's own session, and db.session.commit      *)
(* writes the attributes the handler assigned.  Nothing in the handlers    *)
(* locks the row or compares a version, so the store applies each commit   *)
(* as it arrives.  A request that ends before its commit (400, 404, 403)   *)
(* is one step.                                                            *)
(***************************************************************************)
BalanceOps == {"recharge_card", "log_transaction"}

StatusOps == {"update_status", "block_card", "unblock_card", "unregister_card"}

WithBody(R) == {r \in R : r.body}

ConcRequests ==
    WithBody(AmountRequests("recharge_card", {"S1"}, {Int_(1)})
             \cup AmountRequests("log_transaction", {"S1"}, {Int_(1)})
             \cup StatusRequests({"S1"}, {"unregistered"})
             \cup WrapperRequests("block_card", {"S1"})
             \cup WrapperRequests("unblock_card", {"S1"}))

\* The status a status request assigns.
NewStatus(r) ==
    CASE r.op = "update_status" -> r.status
      [] r.op = "block_card" -> "blocked"
      [] r.op = "unblock_card" -> "active"
      [] r.op = "unregister_card" -> "unregistered"

\* The checks of request r on the row as loaded.
Checks(r, known, status) ==
    CASE r.op = "recharge_card" -> BalanceChecks(r, known, status, RechargeDenied)
      [] r.op = "log_transaction" ->
            BalanceChecks(r, known, status, TransactionDenied)
      [] r.op = "update_status" -> StatusChecks(r, known)
      [] OTHER -> WrapperChecks(r, known)

\* The handler up to its commit: the JSON checks, Student.query.get, the
\* status check.
Load(w, r) ==
    /\ pc[w] = "idle"
    /\ LET known == Exists(r.uid)
           pre == Checks(r, known, IF known THEN students[r.uid].status ELSE "")
       IN IF pre # Pass
          THEN /\ wresp' = [wresp EXCEPT ![w] = pre]
               /\ UNCHANGED <<pc, wreq, session>>
          ELSE /\ pc' = [pc EXCEPT ![w] = "loaded"]
               /\ wreq' = [wreq EXCEPT ![w] = r]
               /\ wresp' = [wresp EXCEPT ![w] = Response(0, "")]
               /\ session' = [session EXCEPT ![w] =
                                [uid |-> r.uid, status |-> students[r.uid].status,
                                 balance |-> students[r.uid].balance]]
    /\ UNCHANGED <<store, model, req, resp, history>>

\* The flush of an assigned attribute: the unit of work emits
\* UPDATE students SET balance = :assigned for an attribute whose value
\* differs from the loaded one, and nothing for one that does not.
FlushBalanceRelative(loaded, assigned, committed) == committed + (assigned - loaded)

FlushBalance(loaded, assigned, committed) ==
    IF assigned = loaded THEN committed ELSE assigned

FlushStatus(loaded, assigned, committed) ==
    IF assigned = loaded THEN committed ELSE assigned

Finish(w, rsp) ==
    /\ pc' = [pc EXCEPT ![w] = "idle"]
    /\ wreq' = [wreq EXCEPT ![w] = NoRequest]
    /\ session' = [session EXCEPT ![w] = NoSession]
    /\ wresp' = [wresp EXCEPT ![w] = rsp]

\* The rest of recharge_card and log_transaction: the try block and the
\* response.  `recheck` is whether the commit looks at the committed status
\* again (the handlers do not).
CommitBalanceChecked(w, recheck) ==
    LET r == wreq[w]
        s == session[w]
        row == students[s.uid]
        n == py_int(r.amount)
        recharge == r.op = "recharge_card"
        delta == IF recharge THEN n.v ELSE -n.v
        b == IF recharge THEN RechargedBalance(s.balance, n.v)
             ELSE DeductedBalance(s.balance, n.v)
    IN IF recheck /\ row.status # "active"
       THEN /\ Finish(w, Response(403, "denied"))
            /\ UNCHANGED <<store, history>>
       ELSE \E dbFails \in BOOLEAN :
         IF ~n.ok \/ dbFails
         THEN /\ Finish(w, Response(500, IF recharge THEN "Recharge failed"
                                         ELSE "Transaction failed"))
              /\ UNCHANGED <<store, history>>
         ELSE /\ InRange(b)
              /\ InRange(history.net + delta)
              /\ recharge \/ Len(transactions) < MaxTx
              /\ students' = [students EXCEPT ![s.uid].balance =
                                FlushBalance(s.balance, b, row.balance)]
              /\ transactions' = IF recharge THEN transactions
                                 ELSE Append(transactions, TxRow(s.uid, n.v))
              /\ history' = [net |-> history.net + delta,
                             late |-> history.late \/ row.status # "active"]
              /\ Finish(w, IF recharge
                           THEN Response(200, "Balance updated successfully")
                           ELSE Response(201, "Transaction logged successfully"))
              /\ UNCHANGED <<logs, anomalies>>

CommitBalanceRechecked(w) == CommitBalanceChecked(w, TRUE)

CommitBalance(w) == CommitBalanceChecked(w, FALSE)

\* The rest of update_status and update_status_wrapper.
CommitStatus(w) ==
    LET s == session[w]
    IN /\ students' = [students EXCEPT ![s.uid].status =
                         FlushStatus(s.status, NewStatus(wreq[w]), @)]
       /\ Finish(w, Response(200, "status updated"))
       /\ UNCHANGED <<transactions, logs, anomalies, history>>

Commit(w) ==
    /\ pc[w] = "loaded"
    /\ IF wreq[w].op \in BalanceOps THEN CommitBalance(w) ELSE CommitStatus(w)
    /\ UNCHANGED <<model, req, resp>>

NextConc ==
    \/ \E r \in WithBody(RegisterRequests({"S1"}, {"Ann"}, {""})) :
          register_student(r)
    \/ \E w \in Workers, r \in ConcRequests : Load(w, r)
    \/ \E w \in Workers : Commit(w)

SpecConc == Init /\ [][NextConc]_vars

(***************************************************************************)
(* The ledger (Spec).                                                      *)
(***************************************************************************)
\* The request of the step is one with a body, a uid that exists and an
\* amount.
OnStudent(r) == r.body /\ r.uid \in DOMAIN students /\ r.amount # Null

\* C1: log_transaction on an existing, active student either succeeds (201),
\* and then that student's balance is lower by exactly the amount, every
\* other student is as before and exactly one row with the uid and the
\* amount is appended to the transactions; or it fails (500), and then
\* neither the students nor the transactions changed.
C1_LogTransactionAtomic ==
    [][(req'.op = "log_transaction" /\ OnStudent(req')
        /\ students[req'.uid].status = "active")
       => \/ /\ resp'.code = 201
             /\ req'.amount.t \in {"int", "numstr"}
             /\ students' = [students EXCEPT
                               ![req'.uid].balance = @ - req'.amount.v]
             /\ transactions' =
                  Append(transactions,
                         [uid |-> req'.uid, amount |-> req'.amount.v])
          \/ /\ resp'.code = 500
             /\ students' = students
             /\ transactions' = transactions]_vars

\* C1 witness: a second transaction has been logged, and the student's
\* balance is below zero.
C1_Witness ==
    /\ req.op = "log_transaction"
    /\ resp.code = 201
    /\ Len(transactions) = 2
    /\ students[req.uid].balance < 0

\* C2: recharge_card and log_transaction on a student whose status is not
\* active answer 403 and change neither the students nor the transactions;
\* and no handler other than these two changes the balance of a student.
C2_InactiveFrozen ==
    [][/\ (req'.op \in BalanceOps /\ OnStudent(req')
           /\ students[req'.uid].status # "active")
          => /\ resp'.code = 403
             /\ students' = students
             /\ transactions' = transactions
       /\ req'.op \notin BalanceOps
          => \A u \in DOMAIN students :
               /\ u \in DOMAIN students'
               /\ students'[u].balance = students[u].balance]_vars

\* C2 witness: a recharge of an unregistered student with a balance was
\* refused.
C2_Witness ==
    /\ req.op = "recharge_card"
    /\ resp.code = 403
    /\ students[req.uid].status = "unregistered"
    /\ students[req.uid].balance # 0

C3_Register ==
    [][(req'.op = "register_student" /\ req'.body /\ req'.uid # "")
       => IF req'.uid \in DOMAIN students
          THEN /\ resp'.code = 400
               /\ req'.name # "" => resp'.msg = "Student already exists"
               /\ students' = students
               /\ Cardinality(DOMAIN students') = Cardinality(DOMAIN students)
          ELSE req'.name # ""
               => /\ resp'.code = 200
                  /\ DOMAIN students' = DOMAIN students \cup {req'.uid}
                  /\ students'[req'.uid] =
                       [name |-> req'.name, phone |-> req'.phone,
                        status |-> "active", balance |-> 0]
                  /\ \A u \in DOMAIN students : students'[u] = students[u]]_vars

\* C3 witness: a second registration of a uid, under another name, was
\* refused, and the student, blocked and with a balance, kept their name.
C3_Witness ==
    /\ req.op = "register_student"
    /\ resp.msg = "Student already exists"
    /\ students[req.uid].name # req.name
    /\ students[req.uid].phone # req.phone
    /\ students[req.uid].status = "blocked"
    /\ students[req.uid].balance = 1

ValidStatusRequest(r) ==
    /\ r.body /\ r.uid \in DOMAIN students
    /\ r.op = "update_status" => r.status \in {"active", "blocked", "unregistered"}

\* C8: every student's status is one of active, blocked, unregistered; a
\* status request (update_status, block_card, unblock_card, unregister_card)
\* with a valid status on an existing uid succeeds from every current
\* status, the requested one included, and sets exactly that student's
\* status; a status request that is not valid fails (400 or 404) and changes
\* no student; no other handler changes the status of a student, and a new
\* student is active.
C8_StatusMachine ==
    /\ [](\A u \in DOMAIN students : students[u].status \in StatusValues)
    /\ [][/\ (req'.op \in StatusOps /\ ValidStatusRequest(req'))
             => /\ resp'.code = 200
                /\ students' = [students EXCEPT ![req'.uid].status = NewStatus(req')]
          /\ (req'.op \in StatusOps /\ ~ValidStatusRequest(req'))
             => /\ resp'.code \in {400, 404}
                /\ students' = students
          /\ req'.op \notin StatusOps
             => /\ \A u \in DOMAIN students :
                     /\ u \in DOMAIN students'
                     /\ students'[u].status = students[u].status
                /\ \A u \in DOMAIN students' \ DOMAIN students :
                     students'[u].status = "active"]_vars

\* C8 witness: a student was unblocked while the other is unregistered.
C8_Witness ==
    /\ req.op = "unblock_card"
    /\ resp.code = 200
    /\ students[req.uid].status = "active"
    /\ \E u \in DOMAIN students : students[u].status = "unregistered"

(***************************************************************************)
(* Telemetry ingestion and prediction (SpecTelemetry).                     *)
(***************************************************************************)
\* The request carries five numeric readings.
ValidFeatures(r) == r.body /\ AllValid(Telemetry(r.payload))

\* C5: a POST to system_logs with five valid readings, with a classifier
\* loaded that labels them an outlier, answers 201, appends one log with
\* anomaly = 1 and appends one anomaly of type System, source Sensor and
\* severity High; and a flagged log and its anomaly come together: there
\* are as many anomalies as flagged logs.
C5_OutlierFlagged ==
    /\ [](Len(anomalies) <= Len(SelectSeq(logs, LAMBDA l : l.anomaly = 1)))
    /\ [][(req'.op = "system_logs" /\ ValidFeatures(req') /\ model = "loaded"
           /\ req'.pred = "outlier")
          => /\ resp'.code = 201
             /\ logs' = Append(logs, [telemetry |-> Telemetry(req'.payload),
                                      anomaly |-> 1])
             /\ anomalies' =
                  Append(anomalies,
                         [type |-> "System", source |-> "Sensor",
                          details |-> Telemetry(req'.payload),
                          severity |-> "High"])]_vars

\* C6: a POST to system_logs with a reading that is missing or not numeric,
\* or with no classifier loaded, or with a classifier that raises, answers
\* 201, appends one log with anomaly = 0 (a reading that is not valid stored
\* as not-a-number) and adds no anomaly.
C6_FailOpen ==
    [][(req'.op = "system_logs" /\ req'.body
        /\ (~ValidFeatures(req') \/ model = "none" \/ req'.pred = "raise"))
       => /\ resp'.code = 201
          /\ logs' = Append(logs, [telemetry |-> Telemetry(req'.payload),
                                   anomaly |-> 0])
          /\ anomalies' = anomalies]_vars

\* C7, as the claim puts it: predict answers 400 for a feature that is missing or not
\* numeric whether or not a classifier is loaded, 503 with no classifier
\* loaded whether or not the features are valid, Anomaly or Normal with a
\* classifier and five valid features; and it changes no table.
C7_AsStated ==
    [][req'.op = "predict"
       => /\ ~ValidFeatures(req') => resp'.code = 400
          /\ model = "none" => resp'.code = 503
          /\ (model = "loaded" /\ ValidFeatures(req'))
             => resp'.code = 200 /\ resp'.msg \in {"Anomaly", "Normal"}
          /\ UNCHANGED store]_vars

\* C7, with the classifier checked first: predict answers 503 with no classifier loaded whether or
\* not the features are valid; with a classifier loaded it answers 400 for
\* a feature that is missing or not numeric, and for five valid features
\* Anomaly or Normal as the classifier labels them, or 500 when the
\* classifier raises; and it changes no table.
C7_Predict ==
    [][req'.op = "predict"
       => /\ model = "none" => resp'.code = 503
          /\ (model = "loaded" /\ ~ValidFeatures(req')) => resp'.code = 400
          /\ (model = "loaded" /\ ValidFeatures(req'))
             => CASE req'.pred = "raise" -> resp'.code = 500
                  [] req'.pred = "outlier" ->
                        resp'.code = 200 /\ resp'.msg = "Anomaly"
                  [] OTHER -> resp'.code = 200 /\ resp'.msg = "Normal"
          /\ UNCHANGED store]_vars

\* C7 witness: with no classifier loaded, a predict request with a feature
\* that is not numeric was answered 503.
C7_Witness ==
    /\ req.op = "predict"
    /\ model = "none"
    /\ req.body /\ ~ValidFeatures(req)
    /\ resp.code = 503

(***************************************************************************)
(* Concurrent requests (SpecConc).                                         *)
(***************************************************************************)
\* Worker w ends a recharge_card or log_transaction request with this step,
\* having loaded the student before it.
CommitsBalance(w) ==
    pc[w] = "loaded" /\ pc'[w] = "idle" /\ wreq[w].op \in BalanceOps

\* What the request of worker w adds to the balance.
Delta(w) ==
    IF wreq[w].op = "recharge_card" THEN wreq[w].amount.v ELSE -wreq[w].amount.v

Succeeded(rsp) == rsp.code \in {200, 201}

\* C9: a recharge_card or log_transaction request that succeeds leaves the
\* student with the balance it read when it loaded the student plus its own
\* amount (minus, for a transaction), whatever other requests committed to
\* that balance in between: their updates are overwritten, not added to.
C9_WritesBackWhatItRead ==
    [][\A w \in Workers :
         (CommitsBalance(w) /\ Succeeded(wresp'[w]))
         => students'[session[w].uid].balance = session[w].balance + Delta(w)]_vars

\* C9 witness: both workers are done and both answered success, and the
\* student's balance is not the sum of the amounts of the requests that
\* succeeded (the initial balance is 0).
C9_Witness ==
    /\ \A w \in Workers : pc[w] = "idle" /\ Succeeded(wresp[w])
    /\ "S1" \in DOMAIN students
    /\ students["S1"].balance # history.net

\* C10: a recharge_card or log_transaction request that has passed its
\* status check and commits when the student's committed status is no
\* longer active is not refused: it fails only as it would have (500,
\* nothing changed), and otherwise succeeds, writes its balance, and, for a
\* transaction, appends its row.
C10_CommitsAfterDeactivation ==
    [][\A w \in Workers :
         (CommitsBalance(w) /\ students[session[w].uid].status # "active")
         => \/ wresp'[w].code = 500 /\ UNCHANGED store
            \/ /\ Succeeded(wresp'[w])
               /\ students'[session[w].uid].balance = session[w].balance + Delta(w)
               /\ students'[session[w].uid].status = students[session[w].uid].status
               /\ wreq[w].op = "log_transaction"
                  => transactions' =
                       Append(transactions,
                              [uid |-> session[w].uid, amount |-> wreq[w].amount.v])
               /\ history'.late]_vars

\* C10 witness: a transaction was logged and the balance written for a
\* student whose committed status at that commit was not active, and who
\* is still blocked.
C10_Witness ==
    /\ history.late
    /\ \E w \in Workers : wresp[w].code = 201
    /\ students["S1"].status = "blocked"
    /\ students["S1"].balance < 0
    /\ Len(transactions) = 1

====
